---- MODULE Spec2Model ----
(***************************************************************************)
(* Robot tic-tac-toe (Automation/tic-tac-toe): the board, the win/draw     *)
(* rules, the minimax search, the play() loop, the episode queue and the   *)
(* replay call of robot_tictactoe.py.                                      *)
(***************************************************************************)
EXTENDS Integers, Sequences, FiniteSets, TLC

\* ------------------------------------------------------------------------
\* Constants of the program
\* ------------------------------------------------------------------------
empty == 0
human == 1
computer == 2

\* -float('inf') and float('inf'): values below and above every score
NegInf == -1000
PosInf == 1000

Cells == 0..8

EmptyBoard == [i \in Cells |-> empty]

Boards == [Cells -> {empty, human, computer}]

\* ------------------------------------------------------------------------
\* Board rules
\* ------------------------------------------------------------------------
Line(b, player, i, j, k) == b[i] = player /\ b[j] = player /\ b[k] = player

is_winner(b, player) ==
    \/ Line(b, player, 0, 1, 2) \/ Line(b, player, 3, 4, 5) \/ Line(b, player, 6, 7, 8)
    \/ Line(b, player, 0, 3, 6) \/ Line(b, player, 1, 4, 7) \/ Line(b, player, 2, 5, 8)
    \/ Line(b, player, 0, 4, 8) \/ Line(b, player, 2, 4, 6)

is_board_full(b) == \A i \in Cells : b[i] # empty

get_available_moves(b) ==
    SelectSeq(<<0, 1, 2, 3, 4, 5, 6, 7, 8>>, LAMBDA i : b[i] = empty)

\* evaluate without its if branch: a win of the computer is not seen
evaluate_human_only(b) == IF is_winner(b, human) THEN -10 ELSE 0

\* evaluate without its elif branch: a win of the human is not seen
evaluate_blind(b) ==
    IF is_winner(b, computer) THEN 10 ELSE 0

evaluate(b) ==
    IF is_winner(b, computer) THEN 10
    ELSE IF is_winner(b, human) THEN -10
    ELSE 0

\* min where max is meant: the computer is taken to play against itself
max2_as_min(a, b) == IF a < b THEN a ELSE b

Max2(a, b) == IF a > b THEN a ELSE b

\* max where min is meant: the human is taken to play for the computer
min2_as_max(a, b) == IF a > b THEN a ELSE b

Min2(a, b) == IF a < b THEN a ELSE b

\* self.board[move] = player, and self.board[move] = 0
Place(b, move, player) == [b EXCEPT ![move] = player]
\* the move is left on the board
undo_missing(b, move) == b

Undo(b, move) == [b EXCEPT ![move] = empty]

\* ------------------------------------------------------------------------
\* minimax.  The search writes self.board and undoes its writes, so the
\* board is threaded through the calls: a call takes the board it finds and
\* returns its score together with the board it leaves.
\* ------------------------------------------------------------------------
\* What a call of minimax and the calls nested in it have met: a board on
\* which both players hold a line, a returned score outside the range of its
\* depth, and the lowest and highest scores returned.
Calls == [both_won : BOOLEAN, out_of_range : BOOLEAN, lowest : Int, highest : Int]

NoCalls ==
    [both_won |-> FALSE, out_of_range |-> FALSE, lowest |-> PosInf, highest |-> NegInf]

Merge(c, d) ==
    [both_won |-> c.both_won \/ d.both_won,
     out_of_range |-> c.out_of_range \/ d.out_of_range,
     lowest |-> IF d.lowest < c.lowest THEN d.lowest ELSE c.lowest,
     highest |-> IF d.highest > c.highest THEN d.highest ELSE c.highest]

\* score is 0, or 10 - d for a computer win, or -10 + d for a human win, at a
\* depth d reached from this call: depth <= d <= depth + the Empty cells of b
ScoreInRange(score, depth, b) ==
    LET left == Cardinality({i \in Cells : b[i] = empty})
    IN  \/ score = 0
        \/ score > 0 /\ 10 - score \in depth..(depth + left)
        \/ score < 0 /\ 10 + score \in depth..(depth + left)

\* minimax(depth, ...) on board b returns score
Note(calls, b, depth, score) ==
    Merge(calls,
          [both_won |-> is_winner(b, human) /\ is_winner(b, computer),
           out_of_range |-> ~ScoreInRange(score, depth, b),
           lowest |-> score, highest |-> score])

\* the depth of the computer's win left out of its score
computer_win_ignores_depth(score, depth) == score

\* depth added to the computer's win instead of subtracted
computer_win_plus_depth(score, depth) == score + depth

\* line 190: return score - depth
ComputerWinScore(score, depth) == score - depth

\* line 192: return score + depth
HumanWinScore(score, depth) == score + depth

Scored == [score : Int, board : Boards, calls : Calls]

\* The end of one pass of a for loop of minimax: p = <<the loop's state, the
\* move tried, what the recursive call returned, is_maximizing>>.
MinimaxIter[p \in (Scored \X Cells \X Scored \X BOOLEAN)] ==
    [score |-> IF p[4] THEN Max2(p[3].score, p[1].score)
                       ELSE Min2(p[3].score, p[1].score),
     board |-> Undo(p[3].board, p[2]),
     calls |-> Merge(p[1].calls, p[3].calls)]

\* at = "entry": a call of minimax(depth, is_maximizing) on st.board;
\* at = "loop": its for loop, with the moves left to try, best_score in
\* st.score and the board in st.board.
MinimaxArgs ==
    [at : {"entry", "loop"}, st : Scored, depth : Int,
     is_maximizing : BOOLEAN, moves : Seq(Cells)]

MinimaxRun[a \in MinimaxArgs] ==
    IF a.at = "entry"
    THEN IF evaluate(a.st.board) = 10
         THEN [score |-> ComputerWinScore(10, a.depth), board |-> a.st.board,
               calls |-> Note(NoCalls, a.st.board, a.depth,
                              ComputerWinScore(10, a.depth))]
         ELSE IF evaluate(a.st.board) = -10
         THEN [score |-> HumanWinScore(-10, a.depth), board |-> a.st.board,
               calls |-> Note(NoCalls, a.st.board, a.depth,
                              HumanWinScore(-10, a.depth))]
         ELSE IF is_board_full(a.st.board)
         THEN [score |-> 0, board |-> a.st.board,
               calls |-> Note(NoCalls, a.st.board, a.depth, 0)]
         ELSE MinimaxRun[[a EXCEPT
                  !.at = "loop",
                  !.moves = get_available_moves(a.st.board),
                  !.st.score = IF a.is_maximizing THEN NegInf ELSE PosInf]]
    ELSE IF a.moves = <<>>
         THEN [a.st EXCEPT !.calls = Note(@, a.st.board, a.depth, a.st.score)]
         ELSE MinimaxRun[[a EXCEPT
                  !.moves = Tail(a.moves),
                  !.st = MinimaxIter[<<
                      a.st,
                      Head(a.moves),
                      MinimaxRun[[at |-> "entry",
                                  st |-> [score |-> 0,
                                          board |-> Place(a.st.board, Head(a.moves),
                                                          IF a.is_maximizing
                                                          THEN computer ELSE human),
                                          calls |-> NoCalls],
                                  depth |-> a.depth + 1,
                                  is_maximizing |-> ~a.is_maximizing,
                                  moves |-> <<>>]],
                      a.is_maximizing>>]]]

minimax(b, depth, is_maximizing) ==
    MinimaxRun[[at |-> "entry", st |-> [score |-> 0, board |-> b, calls |-> NoCalls],
                depth |-> depth, is_maximizing |-> is_maximizing, moves |-> <<>>]]

\* ------------------------------------------------------------------------
\* get_best_move
\* ------------------------------------------------------------------------
\* best_move = None
NoMove == -1

Best == [score : Int, move : Cells \cup {NoMove}, board : Boards, calls : Calls]

\* score >= best_score: the last of the best moves wins a tie
is_better_or_equal(score, best_score) == score >= best_score

IsBetter(score, best_score) == score > best_score

\* The end of one pass of the for loop: p = <<the loop's state, the move
\* tried, what minimax(0, False) returned>>.
BestMoveIter[p \in Best \X Cells \X Scored] ==
    [score |-> IF IsBetter(p[3].score, p[1].score) THEN p[3].score ELSE p[1].score,
     move |-> IF IsBetter(p[3].score, p[1].score) THEN p[2] ELSE p[1].move,
     board |-> Undo(p[3].board, p[2]),
     calls |-> Merge(p[1].calls, p[3].calls)]

BestMoveArgs == [st : Best, moves : Seq(Cells)]

BestMoveLoop[a \in BestMoveArgs] ==
    IF a.moves = <<>>
    THEN a.st
    ELSE BestMoveLoop[[
             st |-> BestMoveIter[<<
                 a.st,
                 Head(a.moves),
                 minimax(Place(a.st.board, Head(a.moves), computer), 0, FALSE)>>],
             moves |-> Tail(a.moves)]]

\* returns best_move in .move, and the board it leaves in .board
get_best_move(b) ==
    BestMoveLoop[[st |-> [score |-> NegInf, move |-> NoMove, board |-> b,
                          calls |-> NoCalls],
                  moves |-> get_available_moves(b)]]

\* ------------------------------------------------------------------------
\* player_move: one pass of its while loop on one line of console input.
\* An input is [number, value]: int() raises ValueError on a non-number.
\* ------------------------------------------------------------------------
InputMargin == 1

Inputs ==
    {[number |-> TRUE, value |-> v] : v \in (1 - InputMargin)..(9 + InputMargin)}
    \cup {[number |-> FALSE, value |-> 0]}

NoInput == [number |-> FALSE, value |-> 0]

\* the test on the cell inverted: only a taken cell is accepted
is_legal_if_taken(b, move) == move \in Cells /\ b[move] # empty

\* the range test alone: a taken cell is accepted
is_legal_in_range(b, move) == 0 <= move /\ move <= 8

IsLegal(b, move) == 0 <= move /\ move <= 8 /\ b[move] = empty

player_move(b, inp) ==
    IF ~inp.number
    THEN [accepted |-> FALSE, board |-> b, out |-> "enter_a_number"]
    ELSE LET move == inp.value - 1 IN
         IF IsLegal(b, move)
         THEN [accepted |-> TRUE, board |-> [b EXCEPT ![move] = human],
               out |-> "you_placed"]
         ELSE [accepted |-> FALSE, board |-> b, out |-> "taken_or_invalid"]

\* ------------------------------------------------------------------------
\* computer_move up to the replay call (lines 245-273), and its return
\* after the replay (lines 275-278).  self is the game object.
\* ------------------------------------------------------------------------
NoRequest == [record_id |-> 0, episode_idx |-> -1]

\* a queue of three ids
short_queue == <<0, 1, 2>>

InitialQueue == <<0, 1, 2, 3>>

\* the head of the queue is read and left in place
peek_left(q) == [value |-> Head(q), rest |-> q]

\* deque.pop(): the newest id instead of the oldest
pop_right(q) == [value |-> q[Len(q)], rest |-> SubSeq(q, 1, Len(q) - 1)]

\* deque.popleft()
popleft(q) == [value |-> Head(q), rest |-> Tail(q)]

Log == Seq([position : Cells \cup {NoMove}, episode_id : Int])

Game == [board : Boards, episode_queue : Seq(Int), computer_moves : Log]

\* lines 255-273: p = <<self, what get_best_move returned>>
\* the cell's index passed on as the record number
record_number_is_position(move) == move

\* line 265: record_number = move + 1
record_number(move) == move + 1

ApplyBestMove[p \in Game \X Best] ==
    [dispatched |-> TRUE,
     self |-> [board |-> Place(p[2].board, p[2].move, computer),
               episode_queue |-> popleft(p[1].episode_queue).rest,
               computer_moves |->
                   Append(p[1].computer_moves,
                          [position |-> p[2].move,
                           episode_id |-> popleft(p[1].episode_queue).value])],
     request |-> [record_id |-> record_number(p[2].move),
                  episode_idx |-> popleft(p[1].episode_queue).value],
     calls |-> p[2].calls,
     out |-> "computer_placed"]

\* an empty queue is filled again instead of ending the game
computer_move_begin_refill(self) ==
    IF get_available_moves(self.board) = <<>>
    THEN [dispatched |-> FALSE, self |-> self, request |-> NoRequest,
          calls |-> NoCalls, out |-> "nothing"]
    ELSE IF self.episode_queue = <<>>
    THEN ApplyBestMove[<<[self EXCEPT !.episode_queue = InitialQueue],
                         get_best_move(self.board)>>]
    ELSE ApplyBestMove[<<self, get_best_move(self.board)>>]

computer_move_begin(self) ==
    IF get_available_moves(self.board) = <<>>
    THEN [dispatched |-> FALSE, self |-> self, request |-> NoRequest,
          calls |-> NoCalls, out |-> "nothing"]
    ELSE IF self.episode_queue = <<>>
    THEN [dispatched |-> FALSE, self |-> self, request |-> NoRequest,
          calls |-> NoCalls, out |-> "no_more_episodes"]
    ELSE ApplyBestMove[<<self, get_best_move(self.board)>>]

\* a failed replay takes the move back and returns the episode id
computer_move_end_rollback(self, success) ==
    IF success
    THEN [returned |-> TRUE, self |-> self, out |-> "replay_completed"]
    ELSE LET last == self.computer_moves[Len(self.computer_moves)] IN
         [returned |-> TRUE,
          self |-> [board |-> Undo(self.board, last.position),
                    episode_queue |-> <<last.episode_id>> \o self.episode_queue,
                    computer_moves |->
                        SubSeq(self.computer_moves, 1, Len(self.computer_moves) - 1)],
          out |-> "replay_failed_game_continues"]

\* a failed replay is passed on: computer_move returns what the replay did
computer_move_end_passes_failure(self, success) ==
    [returned |-> success, self |-> self,
     out |-> IF success THEN "replay_completed" ELSE "replay_failed_game_continues"]

computer_move_end(self, success) ==
    [returned |-> TRUE, self |-> self,
     out |-> IF success THEN "replay_completed" ELSE "replay_failed_game_continues"]

\* ------------------------------------------------------------------------
\* replay_episode: what the call does for each behaviour of its
\* collaborators (the dataset directory, the robot, the dataset loader).
\* ------------------------------------------------------------------------
Envs == {"ok", "path_missing", "connect_fails", "load_fails", "send_fails"}

replay_episode(record_id, episode_idx, env) ==
    IF record_id < 1 \/ record_id > 9
    THEN [raised |-> TRUE, value |-> FALSE, error |-> "record_id"]
    ELSE IF episode_idx < 0 \/ episode_idx > 3
    THEN [raised |-> TRUE, value |-> FALSE, error |-> "episode_idx"]
    ELSE IF env = "path_missing"
    THEN [raised |-> TRUE, value |-> FALSE, error |-> "dataset_path"]
    ELSE IF env \in {"connect_fails", "load_fails", "send_fails"}
    THEN [raised |-> FALSE, value |-> FALSE, error |-> "none"]
    ELSE [raised |-> FALSE, value |-> TRUE, error |-> "none"]

\* ------------------------------------------------------------------------
\* play(): the checks after each turn
\* ------------------------------------------------------------------------
\* the human's win goes unnoticed
AfterHuman_win_unnoticed(b) ==
    IF is_board_full(b) THEN "Draw" ELSE "InProgress"

\* the full-board check made before the win check
AfterHuman_full_first(b) ==
    IF is_board_full(b) THEN "Draw"
    ELSE IF is_winner(b, human) THEN "HumanWins"
    ELSE "InProgress"

AfterHuman(b) ==
    IF is_winner(b, human) THEN "HumanWins"
    ELSE IF is_board_full(b) THEN "Draw"
    ELSE "InProgress"

\* the computer's win goes unnoticed
AfterComputer_win_unnoticed(b) ==
    IF is_board_full(b) THEN "Draw" ELSE "InProgress"

AfterComputer(b) ==
    IF is_winner(b, computer) THEN "ComputerWins"
    ELSE IF is_board_full(b) THEN "Draw"
    ELSE "InProgress"

NoSummary == [printed |-> FALSE, moves |-> <<>>]

print_summary(moves) == [printed |-> TRUE, moves |-> moves]

\* ------------------------------------------------------------------------
\* replay_episode step by step: the robot object, its connection, the frames
\* sent.  r is the state of one call: where it is (pc), its arguments, robot
\* (None or created), connected, num_frames, idx, the frame indexes handed to
\* send_action so far, the disconnect calls made, whether something has
\* raised inside the try block, and what the call returns.
\* ------------------------------------------------------------------------
NoReplay ==
    [pc |-> "idle", record_id |-> 0, episode_idx |-> 0, robot |-> "None",
     connected |-> FALSE, num_frames |-> 0, idx |-> 0, sent |-> <<>>,
     disconnects |-> 0, failed |-> FALSE, result |-> "none"]

\* lines 30-45: the three checks, then robot = None
replay_enter(r, record_id, episode_idx, path_exists) ==
    IF \/ record_id < 1 \/ record_id > 9
       \/ episode_idx < 0 \/ episode_idx > 3
       \/ ~path_exists
    THEN [r EXCEPT !.pc = "raised", !.record_id = record_id,
                   !.episode_idx = episode_idx, !.result = "ValueError"]
    ELSE [r EXCEPT !.pc = "try", !.record_id = record_id,
                   !.episode_idx = episode_idx, !.robot = "None"]

\* lines 48-49: robot = SO101Follower(robot_config)
replay_create(r, ok) ==
    IF ok THEN [r EXCEPT !.pc = "created", !.robot = "created"]
          ELSE [r EXCEPT !.pc = "except", !.failed = TRUE]

\* line 50: robot.connect()
replay_connect(r, ok) ==
    IF ok THEN [r EXCEPT !.pc = "connected", !.connected = TRUE]
          ELSE [r EXCEPT !.pc = "except", !.failed = TRUE]

\* lines 54-73: the dataset is loaded, num_frames = len(episode_data), idx
\* starts at 0
replay_load(r, ok, n) ==
    IF ok THEN [r EXCEPT !.pc = "loop", !.num_frames = n, !.idx = 0]
          ELSE [r EXCEPT !.pc = "except", !.failed = TRUE]

\* lines 73-86: one pass of the loop: send_action for frame idx, which
\* returns or raises
replay_send(r, ok) ==
    IF ok THEN [r EXCEPT !.sent = Append(@, r.idx), !.idx = @ + 1]
          ELSE [r EXCEPT !.pc = "except", !.failed = TRUE,
                         !.sent = Append(@, r.idx)]

\* lines 88-89: the loop is over, return True
replay_completed(r) == [r EXCEPT !.pc = "finally", !.result = "True"]

\* lines 91-95: except Exception, return False
replay_except(r) == [r EXCEPT !.pc = "finally", !.result = "False"]

\* disconnect is called only on a robot that did connect
replay_finally_if_connected(r, ok) ==
    IF r.connected
    THEN [r EXCEPT !.pc = "returned", !.disconnects = @ + 1,
                   !.connected = IF ok THEN FALSE ELSE @]
    ELSE [r EXCEPT !.pc = "returned"]

\* lines 96-102: finally; what disconnect raises is dropped
replay_finally(r, ok) ==
    IF r.robot # "None"
    THEN [r EXCEPT !.pc = "returned", !.disconnects = @ + 1,
                   !.connected = IF ok THEN FALSE ELSE @]
    ELSE [r EXCEPT !.pc = "returned"]

\* ------------------------------------------------------------------------
\* State
\* ------------------------------------------------------------------------
VARIABLES
    board,           \* self.board
    episode_queue,   \* self.episode_queue
    computer_moves,  \* self.computer_moves, the move log
    pc,              \* where play() is
    outcome,         \* how play() left its loop
    out,             \* the last message printed
    input,           \* the last line read by player_move
    request,         \* the arguments of the last replay_episode call
    returned,        \* the last return of computer_move
    summary,         \* what print_summary printed
    searched,        \* what the minimax calls of the last get_best_move met
    games,           \* the objects main() has constructed so far
    sboard,          \* the board of an object whose search is called directly
    sbefore,         \* that board just before the call
    scall,           \* the search function called
    sret,            \* what it returned
    replay           \* a call of replay_episode followed step by step

gameVars == <<board, episode_queue, computer_moves, pc, outcome, out, input,
              request, returned, summary, searched, games>>
searchVars == <<sboard, sbefore, scall, sret>>
vars == <<gameVars, searchVars, replay>>

Self == [board |-> board, episode_queue |-> episode_queue,
         computer_moves |-> computer_moves]

Count(b, player) == Cardinality({i \in Cells : b[i] = player})

GameInit ==
    /\ board = EmptyBoard
    /\ episode_queue = InitialQueue
    /\ computer_moves = <<>>
    /\ pc = "Constructed"
    /\ outcome = "InProgress"
    /\ out = "setup"
    /\ input = NoInput
    /\ request = NoRequest
    /\ returned = "none"
    /\ summary = NoSummary
    /\ searched = NoCalls
    /\ games = 1

NoReturn == [value |-> NoMove, depth |-> 0]

SearchIdle ==
    /\ sboard = EmptyBoard
    /\ sbefore = EmptyBoard
    /\ scall = "none"
    /\ sret = NoReturn

\* replay_episode is not being followed
ReplayIdle == replay = NoReplay

Init == GameInit /\ SearchIdle /\ ReplayIdle

\* ------------------------------------------------------------------------
\* main() and play()
\* ------------------------------------------------------------------------
\* main() line 361: game.play() on the object just constructed
Play ==
    /\ pc = "Constructed"
    /\ pc' = "AwaitingHuman"
    /\ out' = "welcome"
    /\ UNCHANGED <<board, episode_queue, computer_moves, outcome, input, request,
                   returned, summary, searched, games>>
    /\ UNCHANGED <<searchVars, replay>>

\* lines 300-309: the human's turn, one line of input at a time
HumanTurn(inp) ==
    /\ pc = "AwaitingHuman"
    /\ \E r \in {player_move(board, inp)} :
       LET o == AfterHuman(r.board)
       IN  /\ input' = inp
           /\ board' = r.board
           /\ out' = r.out
           /\ IF ~r.accepted
              THEN UNCHANGED <<pc, outcome, summary>>
              ELSE IF o = "InProgress"
              THEN pc' = "AwaitingComputer" /\ UNCHANGED <<outcome, summary>>
              ELSE /\ pc' = "Terminal"
                   /\ outcome' = o
                   /\ summary' = print_summary(computer_moves)
    /\ UNCHANGED <<episode_queue, computer_moves, request, returned, searched,
                   games>>
    /\ UNCHANGED <<searchVars, replay>>

\* lines 311-315 with computer_move lines 245-273
ComputerTurn ==
    /\ pc = "AwaitingComputer"
    /\ \E r \in {computer_move_begin(Self)} :
       /\ board' = r.self.board
       /\ episode_queue' = r.self.episode_queue
       /\ computer_moves' = r.self.computer_moves
       /\ IF r.dispatched
          THEN /\ pc' = "Replaying"
               /\ request' = r.request
               /\ searched' = r.calls
               /\ out' = r.out
               /\ UNCHANGED <<outcome, returned, summary>>
          ELSE /\ pc' = "Terminal"
               /\ returned' = "False"
               /\ outcome' = "EarlyStop"
               /\ out' = "game_ended_no_more_episodes"
               /\ summary' = print_summary(r.self.computer_moves)
               /\ UNCHANGED <<request, searched>>
    /\ UNCHANGED <<input, games>>
    /\ UNCHANGED <<searchVars, replay>>

\* replay_episode returns or raises; computer_move lines 275-278 and
\* play() lines 313-328; a ValueError leaves computer_move and play() and is
\* caught in main() (lines 362-364), which prints it and stops
ReplayReturns(env) ==
    /\ pc = "Replaying"
    /\ \E rep \in {replay_episode(request.record_id, request.episode_idx, env)} :
       IF rep.raised
       THEN /\ pc' = "Aborted"
            /\ returned' = "raised"
            /\ out' = "error"
            /\ UNCHANGED <<board, episode_queue, computer_moves, outcome, summary>>
       ELSE LET r == computer_move_end(Self, rep.value)
                o == IF r.returned THEN AfterComputer(r.self.board) ELSE "EarlyStop"
            IN  /\ board' = r.self.board
                /\ episode_queue' = r.self.episode_queue
                /\ computer_moves' = r.self.computer_moves
                /\ returned' = IF r.returned THEN "True" ELSE "False"
                /\ out' = r.out
                /\ IF o = "InProgress"
                   THEN /\ pc' = "AwaitingHuman"
                        /\ UNCHANGED <<outcome, summary>>
                   ELSE /\ pc' = "Terminal"
                        /\ outcome' = o
                        /\ summary' = print_summary(r.self.computer_moves)
    /\ UNCHANGED <<input, request, searched, games>>
    /\ UNCHANGED <<searchVars, replay>>

\* main() lines 371-374 and 358-360: after a game that ended, "yes" or "y"
\* constructs a new object, any other answer leaves main(); the new games
\* are counted and capped at MaxNewGames
MaxNewGames == 1

\* the loop of main() goes round on the object it has: no new object
PlayAgain_same_object(again) ==
    /\ pc = "Terminal"
    /\ IF again
       THEN /\ games <= MaxNewGames
            /\ pc' = "Constructed"
            /\ games' = games + 1
            /\ UNCHANGED <<board, episode_queue, computer_moves, outcome, out,
                           input, request, returned, summary, searched>>
       ELSE /\ pc' = "Done"
            /\ out' = "thanks_for_playing"
            /\ UNCHANGED <<board, episode_queue, computer_moves, outcome, input,
                           request, returned, summary, searched, games>>
    /\ UNCHANGED <<searchVars, replay>>

PlayAgain(again) ==
    /\ pc = "Terminal"
    /\ IF again
       THEN /\ games <= MaxNewGames
            /\ board' = EmptyBoard
            /\ episode_queue' = InitialQueue
            /\ computer_moves' = <<>>
            /\ pc' = "Constructed"
            /\ outcome' = "InProgress"
            /\ out' = "setup"
            /\ input' = NoInput
            /\ request' = NoRequest
            /\ returned' = "none"
            /\ summary' = NoSummary
            /\ searched' = NoCalls
            /\ games' = games + 1
       ELSE /\ pc' = "Done"
            /\ out' = "thanks_for_playing"
            /\ UNCHANGED <<board, episode_queue, computer_moves, outcome, input,
                           request, returned, summary, searched, games>>
    /\ UNCHANGED <<searchVars, replay>>

Next ==
    \/ Play
    \/ \E inp \in Inputs : HumanTurn(inp)
    \/ ComputerTurn
    \/ \E env \in Envs : ReplayReturns(env)
    \/ \E again \in BOOLEAN : PlayAgain(again)

Spec == Init /\ [][Next]_vars

\* ------------------------------------------------------------------------
\* A game in which every replay_episode call returns (no ValueError) and the
\* human, asked again and again, comes to name an Empty cell; asked for another
\* game the human declines (a new game would start as this one did)
\* ------------------------------------------------------------------------
ReturningEnvs == Envs \ {"path_missing"}

\* a line of input that names an Empty cell of the board
LegalInput(inp) ==
    /\ inp.number
    /\ inp.value - 1 \in Cells
    /\ board[inp.value - 1] = empty

LegalHumanTurn == \E inp \in Inputs : LegalInput(inp) /\ HumanTurn(inp)

ReplayDoesReturn == \E env \in ReturningEnvs : ReplayReturns(env)

NextReturning ==
    \/ Play
    \/ \E inp \in Inputs : HumanTurn(inp)
    \/ ComputerTurn
    \/ ReplayDoesReturn
    \/ PlayAgain(FALSE)

\* play() is called once the object is there, the human comes to name an
\* Empty cell, computer_move is called when play() gets to it, and the replay
\* returns
SpecReturning ==
    /\ Init
    /\ [][NextReturning]_vars
    /\ WF_vars(Play)
    /\ WF_vars(LegalHumanTurn)
    /\ WF_vars(ComputerTurn)
    /\ WF_vars(ReplayDoesReturn)

\* ------------------------------------------------------------------------
\* computer_move called directly on the object, before play()
\* ------------------------------------------------------------------------
ApiComputerMove ==
    /\ pc = "Constructed"
    /\ \E r \in {computer_move_begin(Self)} :
       /\ board' = r.self.board
       /\ episode_queue' = r.self.episode_queue
       /\ computer_moves' = r.self.computer_moves
       /\ IF r.dispatched
          THEN /\ pc' = "ApiReplaying"
               /\ request' = r.request
               /\ searched' = r.calls
               /\ out' = r.out
               /\ UNCHANGED returned
          ELSE /\ returned' = "False"
               /\ out' = IF r.out = "nothing" THEN out ELSE r.out
               /\ UNCHANGED <<pc, request, searched>>
    /\ UNCHANGED <<outcome, input, summary, games>>
    /\ UNCHANGED <<searchVars, replay>>

ApiReplayReturns(env) ==
    /\ pc = "ApiReplaying"
    /\ \E rep \in {replay_episode(request.record_id, request.episode_idx, env)} :
       IF rep.raised
       THEN /\ returned' = "raised"
            /\ out' = "error"
            /\ UNCHANGED <<board, episode_queue, computer_moves>>
       ELSE LET r == computer_move_end(Self, rep.value)
            IN  /\ board' = r.self.board
                /\ episode_queue' = r.self.episode_queue
                /\ computer_moves' = r.self.computer_moves
                /\ returned' = IF r.returned THEN "True" ELSE "False"
                /\ out' = r.out
    /\ pc' = "Constructed"
    /\ UNCHANGED <<outcome, input, request, summary, searched, games>>
    /\ UNCHANGED <<searchVars, replay>>

NextApi ==
    \/ Next
    \/ ApiComputerMove
    \/ \E env \in Envs : ApiReplayReturns(env)

SpecApi == Init /\ [][NextApi]_vars

\* ------------------------------------------------------------------------
\* minimax and get_best_move called directly on a board
\* ------------------------------------------------------------------------
MaxEmpty == 4

\* the board of the scenario [H,H,_,C,C,_,_,_,_]
ScenarioBoard ==
    [i \in Cells |-> IF i \in {0, 1} THEN human
                     ELSE IF i \in {3, 4} THEN computer ELSE empty]

TurnBoards ==
    {b \in Boards : /\ Count(b, empty) <= MaxEmpty
                    /\ Count(b, human) - Count(b, computer) \in {0, 1}}

SearchBoards == TurnBoards \cup {EmptyBoard, ScenarioBoard}

\* the computer is to move after the human, who moves first
ComputerToMove(b) == Count(b, human) > Count(b, computer)

SearchInit ==
    /\ GameInit
    /\ sboard \in SearchBoards
    /\ sbefore = sboard
    /\ scall = "none"
    /\ sret = NoReturn
    /\ ReplayIdle

MaxDepthArg == 1

CallMinimax(depth) ==
    /\ sboard \in TurnBoards
    /\ \E r \in {minimax(sboard, depth, ComputerToMove(sboard))} :
       /\ sboard' = r.board
       /\ sret' = [value |-> r.score, depth |-> depth]
    /\ sbefore' = sboard
    /\ scall' = "minimax"
    /\ UNCHANGED <<gameVars, replay>>

CallGetBestMove ==
    /\ \E r \in {get_best_move(sboard)} :
       /\ sboard' = r.board
       /\ sret' = [value |-> r.move, depth |-> 0]
    /\ sbefore' = sboard
    /\ scall' = "get_best_move"
    /\ UNCHANGED <<gameVars, replay>>

SearchNext ==
    \/ \E depth \in 0..MaxDepthArg : CallMinimax(depth)
    \/ CallGetBestMove

SpecSearch == SearchInit /\ [][SearchNext]_vars

\* ------------------------------------------------------------------------
\* play() called on an object whose board was set beforehand
\* ------------------------------------------------------------------------
PresetBoards == {b \in SearchBoards : evaluate(b) = 0 /\ ~is_board_full(b)}

PresetInit ==
    /\ board \in PresetBoards
    /\ episode_queue = InitialQueue
    /\ computer_moves = <<>>
    /\ pc = "Constructed"
    /\ outcome = "InProgress"
    /\ out = "setup"
    /\ input = NoInput
    /\ request = NoRequest
    /\ returned = "none"
    /\ summary = NoSummary
    /\ searched = NoCalls
    /\ games = 1
    /\ SearchIdle
    /\ ReplayIdle

SpecPreset == PresetInit /\ [][Next]_vars

\* ------------------------------------------------------------------------
\* replay_episode called on its own and followed step by step
\* ------------------------------------------------------------------------
ArgMargin == 1

MaxFrames == 3

ReplayCalled(record_id, episode_idx, path_exists) ==
    /\ replay.pc = "idle"
    /\ replay' = replay_enter(replay, record_id, episode_idx, path_exists)
    /\ UNCHANGED <<gameVars, searchVars>>

ReplayCreates(ok) ==
    /\ replay.pc = "try"
    /\ replay' = replay_create(replay, ok)
    /\ UNCHANGED <<gameVars, searchVars>>

ReplayConnects(ok) ==
    /\ replay.pc = "created"
    /\ replay' = replay_connect(replay, ok)
    /\ UNCHANGED <<gameVars, searchVars>>

ReplayLoads(ok, n) ==
    /\ replay.pc = "connected"
    /\ replay' = replay_load(replay, ok, n)
    /\ UNCHANGED <<gameVars, searchVars>>

ReplaySends(ok) ==
    /\ replay.pc = "loop"
    /\ replay.idx < replay.num_frames
    /\ replay' = replay_send(replay, ok)
    /\ UNCHANGED <<gameVars, searchVars>>

ReplayCompleted ==
    /\ replay.pc = "loop"
    /\ replay.idx >= replay.num_frames
    /\ replay' = replay_completed(replay)
    /\ UNCHANGED <<gameVars, searchVars>>

ReplayExcept ==
    /\ replay.pc = "except"
    /\ replay' = replay_except(replay)
    /\ UNCHANGED <<gameVars, searchVars>>

ReplayFinally(ok) ==
    /\ replay.pc = "finally"
    /\ replay' = replay_finally(replay, ok)
    /\ UNCHANGED <<gameVars, searchVars>>

ReplayNext ==
    \/ \E record_id \in (1 - ArgMargin)..(9 + ArgMargin),
          episode_idx \in (0 - ArgMargin)..(3 + ArgMargin),
          path_exists \in BOOLEAN :
           ReplayCalled(record_id, episode_idx, path_exists)
    \/ \E ok \in BOOLEAN : ReplayCreates(ok)
    \/ \E ok \in BOOLEAN : ReplayConnects(ok)
    \/ \E ok \in BOOLEAN, n \in 0..MaxFrames : ReplayLoads(ok, n)
    \/ \E ok \in BOOLEAN : ReplaySends(ok)
    \/ ReplayCompleted
    \/ ReplayExcept
    \/ \E ok \in BOOLEAN : ReplayFinally(ok)

SpecReplay == Init /\ [][ReplayNext]_vars

\* ------------------------------------------------------------------------
\* The plain game, tictactoe.py.  Its lines 28-116 (is_winner ... player_move)
\* are statement for statement lines 155-241 of robot_tictactoe.py, so the
\* operators of the board rules, of the search and of player_move above model
\* them too.  Its computer_move, play and main are modelled here, as functions
\* of the state of a plain game: the board, where main() is, the outcome.
\* ------------------------------------------------------------------------
PlainOutcomes == {"InProgress", "HumanWins", "ComputerWins", "Draw"}

PlainGames ==
    [board : Boards,
     pc : {"Constructed", "AwaitingHuman", "AwaitingComputer", "Terminal", "Done"},
     outcome : PlainOutcomes]

\* tictactoe.py line 174: game = TicTacToe()
PlainStart == [board |-> EmptyBoard, pc |-> "Constructed", outcome |-> "InProgress"]

\* tictactoe.py line 127: self.board[move] = self.computer
PlainApply[p \in Best] == Place(p.board, p.move, computer)

\* tictactoe.py lines 118-128, the board it leaves
plain_computer_move(b) ==
    IF get_available_moves(b) = <<>> THEN b ELSE PlainApply[get_best_move(b)]

\* tictactoe.py lines 151-157
PlainAfterHuman(b) ==
    IF is_winner(b, human) THEN "HumanWins"
    ELSE IF is_board_full(b) THEN "Draw"
    ELSE "InProgress"

\* tictactoe.py lines 163-169
PlainAfterComputer(b) ==
    IF is_winner(b, computer) THEN "ComputerWins"
    ELSE IF is_board_full(b) THEN "Draw"
    ELSE "InProgress"

\* <<the board after a turn, what the checks after it found, whose turn is
\* next if the game goes on>>
PlainTurnEnds == Boards \X PlainOutcomes \X {"AwaitingHuman", "AwaitingComputer"}

\* play() after a turn and its checks
PlainChecked[p \in PlainTurnEnds] ==
    [board |-> p[1],
     pc |-> IF p[2] = "InProgress" THEN p[3] ELSE "Terminal",
     outcome |-> p[2]]

\* tictactoe.py line 175: game.play() up to the first prompt
plain_play(g) == [g EXCEPT !.pc = "AwaitingHuman"]

\* tictactoe.py lines 148-157: one line of input at the human's turn
plain_human_turn(g, inp) ==
    IF ~player_move(g.board, inp).accepted
    THEN g
    ELSE PlainChecked[<<player_move(g.board, inp).board,
                        PlainAfterHuman(player_move(g.board, inp).board),
                        "AwaitingComputer">>]

\* tictactoe.py lines 160-169: the computer's turn
PlainComputerChecked[b \in Boards] ==
    PlainChecked[<<b, PlainAfterComputer(b), "AwaitingHuman">>]

plain_computer_turn(g) == PlainComputerChecked[plain_computer_move(g.board)]

\* tictactoe.py lines 173-180: the question after a game
plain_play_again(g, again) ==
    IF again THEN PlainStart ELSE [g EXCEPT !.pc = "Done"]

\* ------------------------------------------------------------------------
\* Properties
\* ------------------------------------------------------------------------
WinningCombos ==
    { <<0, 1, 2>>, <<3, 4, 5>>, <<6, 7, 8>>,
      <<0, 3, 6>>, <<1, 4, 7>>, <<2, 5, 8>>,
      <<0, 4, 8>>, <<2, 4, 6>> }

Holds(b, player, combo) == \A j \in 1..3 : b[combo[j]] = player

\* C1: in a game run by play() the human never holds a complete line, and a
\* game that ends, ends with the computer's win or a draw.
NeverLoses ==
    /\ \A combo \in WinningCombos : ~Holds(board, human, combo)
    /\ outcome # "HumanWins"
    /\ pc = "Terminal" => outcome \in {"ComputerWins", "Draw"}

\* a game played to a full board: five human moves against four answers
NeverLoses_Witness ==
    /\ pc = "Terminal"
    /\ outcome = "Draw"
    /\ Count(board, human) = 5
    /\ Count(board, computer) = 4

\* C2: when minimax or get_best_move returns, every cell of the board is what
\* it was just before the call.  A nested call of minimax is a call on a
\* board of TurnBoards, so the nested calls are covered by the direct ones.
Restoration ==
    scall # "none" => \A i \in Cells : sboard[i] = sbefore[i]

\* a minimax call that went through its loop four moves deep
Restoration_Witness ==
    /\ scall = "minimax"
    /\ Count(sbefore, empty) = MaxEmpty
    /\ evaluate(sbefore) = 0
    /\ sboard = sbefore

\* C3: whatever makes the replay fail, computer_move returns True and play()
\* goes on to its checks: the next human turn or Terminal.
ReplayFailureNonFatal ==
    [][pc = "Replaying" =>
          /\ returned' = "True"
          /\ pc' \in {"AwaitingHuman", "Terminal"}]_vars

\* C4: the replay changes neither the board, nor the move log, nor the
\* episode queue, whether it succeeds, reports a failure or raises.
ReplayKeepsState ==
    [][pc = "Replaying" =>
          /\ board' = board
          /\ computer_moves' = computer_moves
          /\ episode_queue' = episode_queue]_vars

\* a replay reported as failed, the game goes on with the move in place
ReplayKeepsState_Witness ==
    /\ pc = "AwaitingHuman"
    /\ out = "replay_failed_game_continues"
    /\ Len(computer_moves) = 1
    /\ board[computer_moves[1].position] = computer
    /\ episode_queue = <<1, 2, 3>>

\* C5: episode ids leave the queue [0,1,2,3] oldest first: the k-th computer
\* move gets id k-1; a computer_move after four allocations gets none, returns
\* False and leaves the queue empty.
EpisodeFifo ==
    /\ [](/\ Len(computer_moves) <= 4
          /\ \A k \in 1..Len(computer_moves) : computer_moves[k].episode_id = k - 1)
    /\ [][(/\ Len(computer_moves) = 4
           /\ \/ pc = "AwaitingComputer"
              \/ pc = "Constructed" /\ pc' = "Constructed")
          => /\ returned' = "False"
             /\ episode_queue' = <<>>
             /\ computer_moves' = computer_moves]_vars

\* the fifth computer_move has returned False
EpisodeFifo_Witness ==
    /\ returned = "False"
    /\ out = "no_more_episodes"
    /\ episode_queue = <<>>
    /\ Len(computer_moves) = 4
    /\ computer_moves[4].episode_id = 3

\* C6: computer_move entered from play() with an empty queue and an Empty
\* cell on the board ends the game (early stop): no cell, no log entry, no
\* replay request changes.
EarlyStopLeavesState ==
    [][(/\ pc = "AwaitingComputer"
        /\ episode_queue = <<>>
        /\ \E i \in Cells : board[i] = empty)
       => /\ pc' = "Terminal"
          /\ outcome' = "EarlyStop"
          /\ returned' = "False"
          /\ board' = board
          /\ computer_moves' = computer_moves
          /\ episode_queue' = <<>>
          /\ request' = request]_vars

\* play() stopped early on a board that still has an Empty cell
EarlyStopLeavesState_Witness ==
    /\ pc = "Terminal"
    /\ outcome = "EarlyStop"
    /\ episode_queue = <<>>
    /\ \E i \in Cells : board[i] = empty
    /\ summary = print_summary(computer_moves)

\* the score of the move: minimax(0, False) after placing the computer there
ScoreOf(b, move) == minimax(Place(b, move, computer), 0, FALSE).score

EmptyCells(b) == {i \in Cells : b[i] = empty}

\* scored is a set of <<move, score>>: the lowest move of maximal score
ScoredMoves == SUBSET (Cells \X Int)

FirstOfBest[scored \in ScoredMoves] ==
    LET best == {p \in scored : \A q \in scored : p[2] >= q[2]}
    IN  (CHOOSE p \in best : \A q \in best : p[1] <= q[1])[1]

FirstMaximal(b) == FirstOfBest[{<<m, ScoreOf(b, m)>> : m \in EmptyCells(b)}]

\* C7: get_best_move returns the lowest Empty cell among those of maximal
\* score; on the empty board, where all nine cells tie, that is cell 0.
BestMoveIsFirstMaximal ==
    (scall = "get_best_move" /\ EmptyCells(sbefore) # {})
    => /\ sret.value = FirstMaximal(sbefore)
       /\ sbefore = EmptyBoard => sret.value = 0

\* the call on the empty board
BestMoveIsFirstMaximal_Witness ==
    /\ scall = "get_best_move"
    /\ sbefore = EmptyBoard
    /\ sret.value = 0

\* the Empty cells that complete a line of which the player holds two cells
Threats(b, player) ==
    {i \in EmptyCells(b) :
        \E combo \in WinningCombos :
            /\ \E j \in 1..3 : combo[j] = i
            /\ \A j \in 1..3 : combo[j] # i => b[combo[j]] = player}

NoWinner(b) == ~is_winner(b, human) /\ ~is_winner(b, computer)

CenterAnsweredAtCorner ==
    (/\ Len(computer_moves) = 1
     /\ Count(board, human) = 1
     /\ board[4] = human)
    => computer_moves[1].position \in {0, 2, 6, 8}

\* the computer has answered the center
CenterAnsweredAtCorner_Witness ==
    /\ pc = "Replaying"
    /\ Len(computer_moves) = 1
    /\ Count(board, human) = 1
    /\ board[4] = human
    /\ board[computer_moves[1].position] = computer

\* C10: an input off the board or on a taken cell changes no cell and
\* player_move asks again; a legal input sets that cell to Human and nothing
\* else, and leaves the queue and the log alone.  No cell that is not Empty
\* is ever written (a new game of main() has a new object and a new board).
HumanMoveValidation ==
    /\ [][pc = "AwaitingHuman" =>
            IF /\ input'.number
               /\ input'.value - 1 \in Cells
               /\ board[input'.value - 1] = empty
            THEN /\ board' = [board EXCEPT ![input'.value - 1] = human]
                 /\ episode_queue' = episode_queue
                 /\ computer_moves' = computer_moves
            ELSE /\ board' = board
                 /\ pc' = "AwaitingHuman"
                 /\ episode_queue' = episode_queue
                 /\ computer_moves' = computer_moves]_vars
    /\ [][pc' # "Constructed" =>
            \A i \in Cells : board[i] # empty => board'[i] = board[i]]_vars

\* the human asked for a cell of the computer and was turned down
HumanMoveValidation_Witness ==
    /\ pc = "AwaitingHuman"
    /\ out = "taken_or_invalid"
    /\ input.number
    /\ input.value - 1 \in Cells
    /\ board[input.value - 1] = computer

HasLine(b, player) == \E combo \in WinningCombos : Holds(b, player, combo)

\* C11: when play() has left its loop, Draw is reported exactly when the
\* board is full and nobody holds a line; a player who holds a line is reported
\* as the winner, also when the winning move filled the board.
OutcomeReporting ==
    pc = "Terminal" =>
        /\ outcome = "Draw" <=>
               (is_board_full(board) /\ ~HasLine(board, human)
                                     /\ ~HasLine(board, computer))
        /\ HasLine(board, human) => outcome = "HumanWins"
        /\ HasLine(board, computer) => outcome = "ComputerWins"

\* the human's move filled the board and completed a line
OutcomeReporting_Witness ==
    /\ pc = "Terminal"
    /\ outcome = "HumanWins"
    /\ is_board_full(board)
    /\ HasLine(board, human)

Over(b) == HasLine(b, human) \/ HasLine(b, computer) \/ is_board_full(b)

\* C12: a step of a game that changes the board, the episode queue or the
\* move log starts from a board without a winner that is not full; after
\* play() has left its loop the only steps are main()'s: a new object for a
\* new game, or leaving, after which nothing happens.
TerminalAbsorbing ==
    /\ [][(/\ pc' # "Constructed"
           /\ \/ board' # board
              \/ episode_queue' # episode_queue
              \/ computer_moves' # computer_moves)
          => ~Over(board)]_vars
    /\ [][pc = "Terminal" => pc' \in {"Constructed", "Done"}]_vars
    /\ [][pc \notin {"Done", "Aborted"}]_vars

\* main() was left after a game won with Empty cells and episode ids remaining
TerminalAbsorbing_Witness ==
    /\ pc = "Done"
    /\ outcome = "ComputerWins"
    /\ HasLine(board, computer)
    /\ ~is_board_full(board)
    /\ episode_queue # <<>>

\* C13: when every replay call returns and the human comes to give a legal
\* move at every prompt, a game that was started reaches Terminal; no game has
\* more than five human moves or more than four computer moves.
Termination ==
    /\ [](/\ Count(board, human) <= 5
          /\ Count(board, computer) <= 4
          /\ Len(computer_moves) <= 4)
    /\ (pc = "Constructed") ~> (pc = "Terminal")

\* the longest game: five human moves, four computer moves, summary printed
Termination_Witness ==
    /\ pc = "Terminal"
    /\ summary.printed
    /\ Len(summary.moves) = 4
    /\ Count(board, human) = 5

\* C14: the request handed to replay_episode is (the cell just set to
\* Computer + 1, the episode id just taken from the head of the queue); so the
\* record is in 1..9, the episode in 0..3, and replay_episode's range
\* validation rejects it under no behaviour of its collaborators.
RequestMapping ==
    /\ [](pc = "Replaying" =>
            LET last == computer_moves[Len(computer_moves)]
            IN  /\ request.record_id \in 1..9
                /\ request.episode_idx \in 0..3
                /\ request.record_id = last.position + 1
                /\ request.episode_idx = last.episode_id
                /\ board[last.position] = computer
                /\ \A env \in Envs :
                       replay_episode(request.record_id, request.episode_idx,
                                      env).error \notin {"record_id", "episode_idx"})
    /\ [][(pc = "AwaitingComputer" /\ pc' = "Replaying") =>
            /\ episode_queue # <<>>
            /\ request'.episode_idx = Head(episode_queue)
            /\ \E i \in Cells :
                   /\ board[i] = empty
                   /\ board' = [board EXCEPT ![i] = computer]
                   /\ request'.record_id = i + 1]_vars

\* the fourth computer move, at the last cell: record 9, episode 3
RequestMapping_Witness ==
    /\ pc = "Replaying"
    /\ request = [record_id |-> 9, episode_idx |-> 3]
    /\ board[8] = computer

\* C15: on no board of a game, and on no board on which a minimax call of the
\* game's get_best_move calls was made, do Human and Computer both hold a line.
NoDoubleWin ==
    /\ ~(HasLine(board, human) /\ HasLine(board, computer))
    /\ ~searched.both_won

\* a search that met wins of both players, each on a board of its own
NoDoubleWin_Witness ==
    /\ pc = "Replaying"
    /\ searched.lowest < 0
    /\ searched.highest > 0
    /\ ~searched.both_won

\* C16: every minimax(d, ...) call made by a get_best_move of a game returns
\* 0, or 10 - d' for a computer win, or -10 + d' for a human win, found at a
\* depth d' >= d; so the score is in (-10 + d)..(10 - d), never an initial
\* value of best_score.
ScoreRange ==
    searched # NoCalls =>
        /\ ~searched.out_of_range
        /\ -10 <= searched.lowest
        /\ searched.highest <= 10
        /\ searched.lowest <= searched.highest

\* the calls of one get_best_move returned a loss in one move and a win at once
ScoreRange_Witness ==
    /\ pc = "Replaying"
    /\ searched.lowest = -9
    /\ searched.highest = 10
    /\ ~searched.out_of_range

\* C17: play() calls get_best_move only on a board that has an Empty cell and
\* no winner; the call returns an Empty cell of 0..8, never None, and that
\* cell and no other is set to Computer.
BestMoveCalledOnOpenBoard ==
    /\ [](pc = "AwaitingComputer" => ~Over(board))
    /\ [][(pc = "AwaitingComputer" /\ pc' = "Replaying") =>
            LET move == get_best_move(board).move
            IN  /\ ~Over(board)
                /\ move # NoMove
                /\ move \in Cells
                /\ board[move] = empty
                /\ board' = [board EXCEPT ![move] = computer]
                /\ computer_moves'[Len(computer_moves')].position = move]_vars

\* get_best_move was called on a board with one Empty cell, which it returned
BestMoveCalledOnOpenBoard_Witness ==
    /\ pc = "Replaying"
    /\ is_board_full(board)
    /\ board[computer_moves[Len(computer_moves)].position] = computer
    /\ searched # NoCalls

\* C18: on a board without a winner where some Empty cell completes a line
\* of the computer, get_best_move returns the lowest such cell.
FastestWin ==
    (/\ scall = "get_best_move"
     /\ NoWinner(sbefore)
     /\ Threats(sbefore, computer) # {})
    => /\ sret.value \in Threats(sbefore, computer)
       /\ \A i \in Threats(sbefore, computer) : sret.value <= i

\* the winning cell was returned although a lower Empty cell was there
FastestWin_Witness ==
    /\ scall = "get_best_move"
    /\ NoWinner(sbefore)
    /\ sret.value \in Threats(sbefore, computer)
    /\ \E i \in EmptyCells(sbefore) : i < sret.value
    /\ Cardinality(Threats(sbefore, computer)) = 2

\* C19: in every state of a game the queue and the log together hold four
\* entries; the log has one entry per Computer cell, its positions are
\* distinct and are the Computer cells; entry i (from 0) carries id i; the
\* queue is what is left, in increasing order; and within a game a log entry,
\* once written, stays as it is.
Bookkeeping ==
    /\ [](/\ Len(episode_queue) + Len(computer_moves) = 4
          /\ Count(board, computer) = Len(computer_moves)
          /\ {computer_moves[k].position : k \in 1..Len(computer_moves)}
                 = {i \in Cells : board[i] = computer}
          /\ \A j, k \in 1..Len(computer_moves) :
                 j # k => computer_moves[j].position # computer_moves[k].position
          /\ \A k \in 1..Len(computer_moves) : computer_moves[k].episode_id = k - 1
          /\ episode_queue =
                 [k \in 1..(4 - Len(computer_moves)) |-> Len(computer_moves) + k - 1])
    /\ [][pc' # "Constructed" =>
            /\ Len(computer_moves') >= Len(computer_moves)
            /\ \A k \in 1..Len(computer_moves) :
                   computer_moves'[k] = computer_moves[k]]_vars

\* between turns after the fourth computer move: the queue is used up
Bookkeeping_Witness ==
    /\ pc = "AwaitingHuman"
    /\ Len(computer_moves) = 4
    /\ episode_queue = <<>>
    /\ Count(board, computer) = 4

Lead(b) == Count(b, human) - Count(b, computer)

\* C20: a game starts with the human to move on an empty board with the queue
\* [0,1,2,3], the first game and a game started after another alike; marks
\* are placed in turn, the human's first: the human has as many marks as the
\* computer when the human is awaited, one more when the computer is awaited,
\* and never any other number.
TurnAlternation ==
    /\ [](/\ Lead(board) \in {0, 1}
          /\ pc = "AwaitingHuman" => Lead(board) = 0
          /\ pc = "AwaitingComputer" => Lead(board) = 1
          /\ pc = "Constructed" => /\ board = EmptyBoard
                                   /\ episode_queue = InitialQueue
                                   /\ computer_moves = <<>>)
    /\ [][pc = "Constructed" => /\ pc' = "AwaitingHuman"
                                /\ board' = EmptyBoard
                                /\ episode_queue' = InitialQueue]_vars
    /\ [][Count(board', human) > Count(board, human) =>
            /\ pc = "AwaitingHuman"
            /\ Lead(board') = 1
            /\ Count(board', computer) = Count(board, computer)]_vars
    /\ [][Count(board', computer) > Count(board, computer) =>
            /\ pc = "AwaitingComputer"
            /\ Lead(board') = 0
            /\ Count(board', human) = Count(board, human)]_vars

\* the second game of main() awaits its first human move
TurnAlternation_Witness ==
    /\ games = 2
    /\ pc = "AwaitingHuman"
    /\ board = EmptyBoard
    /\ episode_queue = InitialQueue
    /\ computer_moves = <<>>

\* C21: in a game run by play() computer_move is entered at most four times
\* and finds an id in the queue each time; play() never leaves its loop by the
\* early stop: when it has left it, a player holds a line or the board is full.
PoolNeverEmpty ==
    /\ pc = "AwaitingComputer" =>
           /\ episode_queue # <<>>
           /\ Len(computer_moves) <= 3
    /\ outcome # "EarlyStop"
    /\ returned # "False"
    /\ out \notin {"no_more_episodes", "game_ended_no_more_episodes"}
    /\ pc = "Terminal" => Over(board)

\* the fourth computer_move of a game has taken the last id of the queue
PoolNeverEmpty_Witness ==
    /\ pc = "Replaying"
    /\ episode_queue = <<>>
    /\ Len(computer_moves) = 4
    /\ request.episode_idx = 3

\* The plain game a state of the robot game stands for: the same board; while
\* the replay of the computer's move runs, the plain game has made its checks
\* of that move already.
PlainView ==
    IF pc = "Replaying"
    THEN PlainComputerChecked[board]
    ELSE [board |-> board, pc |-> pc, outcome |-> outcome]

\* C22: as long as the replay calls return, every step of main()/play() of the
\* robot game is the step of the plain game on the same input: the start of
\* play(), the human's turn on the line just read, the computer's turn, the
\* question after the game; the return of a replay, True or False, is no step
\* of the plain game.  So both go through the same boards to the same
\* outcome, whatever the queue, the log and the replays do.
RefinesPlain ==
    /\ PlainView = PlainStart
    /\ [][pc' # "Aborted" =>
            /\ PlainView \in PlainGames
            /\ PlainView' =
                  CASE pc = "Constructed" -> plain_play(PlainView)
                    [] pc = "AwaitingHuman" -> plain_human_turn(PlainView, input')
                    [] pc = "AwaitingComputer" -> plain_computer_turn(PlainView)
                    [] pc = "Replaying" -> PlainView
                    [] pc = "Terminal" -> plain_play_again(PlainView, pc' = "Constructed")
                    [] OTHER -> PlainView]_vars

\* a game won by the computer although the replay of its last move failed
RefinesPlain_Witness ==
    /\ pc = "Terminal"
    /\ out = "replay_failed_game_continues"
    /\ PlainView = [board |-> board, pc |-> "Terminal", outcome |-> "ComputerWins"]
    /\ PlainAfterComputer(board) = "ComputerWins"

====
